---- MODULE Spec2Model ----
(***************************************************************************)
(* Model of poetry-build-compact: the standalone builder (compile.py) and  *)
(* the poetry plugin (plugin.py).                                          *)
(*                                                                         *)
(* Strings are sequences of tokens: "a.cpython-311.pyc" is                 *)
(* <<"a", ".", "cpython", "-", "311", ".", "pyc">>; "." and "-" are always *)
(* tokens of their own, so that suffix, stem, split and replace work on    *)
(* the text as the code's string operations do.  A path is a sequence of   *)
(* names, relative to the working directory (the project root).  The file  *)
(* system is a function from the paths that exist to their nodes.          *)
(***************************************************************************)
EXTENDS Integers, Sequences, FiniteSets, TLC

VARIABLES
    fs,        \* the file system: path -> [dir, content]
    pc,        \* position of the running program
    rev,       \* environment: directory listings come in reverse name order
    args,      \* the parsed command line of the standalone builder
    opts,      \* the plugin's options: suffix, prefix, replace
    group,     \* the plugin's main dependency group: DependencyGroup._dependencies
    section,   \* [tool.poetry.dependencies] of the manifest: name -> constraint
    affected,  \* the plugin's affected_packages
    records,   \* the list of RECORD lines collected so far
    collected, \* history: the records build_wheel was given
    copied,    \* history: the writes copy_pyc made, <<[src, dst, content]>>
    fresh,     \* history: the files compile_dir wrote in this run
    hist,      \* history: [op, ok, before, after] of the operations applied
    backups,   \* settings_backup's dict `files`: <<[source, target]>>
    entry,     \* history: the project files as they were at scope entry
    cmds,      \* history: the external commands run, <<[argv, rc, lock, toml]>>
    replaced,  \* what replace_dependency returned: "none", "True", "False"
    exitcode   \* how the process ended: "running", "0", "1", "exception"

vars == <<fs, pc, rev, args, opts, group, section, affected, records, collected, copied, fresh, hist,
          backups, entry, cmds, replaced, exitcode>>

-----------------------------------------------------------------------------
(* Bounds *)

MaxEntries == 5     \* a source tree holds at most this many files and directories
MaxCalls == 2       \* remove_cache is applied at most this many times in a row
MaxDeps == 2        \* --replace-dependency names at most this many dependencies
MaxVersions == 2    \* a project file takes at most this many different contents
MaxRuns == 2        \* the dependency replacement is applied at most this many times

-----------------------------------------------------------------------------
(* Strings *)

Last(s) == s[Len(s)]
Front(s) == SubSeq(s, 1, Len(s) - 1)

RECURSIVE Reverse(_)
Reverse(s) == IF s = <<>> THEN <<>> ELSE Append(Reverse(Tail(s)), Head(s))

\* str.find: the first index of token t in s, 0 when absent
RECURSIVE FindFrom(_, _, _)
FindFrom(s, t, i) ==
    IF i > Len(s) THEN 0
    ELSE IF s[i] = t THEN i ELSE FindFrom(s, t, i + 1)
Find(s, t) == FindFrom(s, t, 1)

\* str.rfind: the last index of token t in s, 0 when absent
RECURSIVE RFindFrom(_, _, _)
RFindFrom(s, t, i) ==
    IF i < 1 THEN 0
    ELSE IF s[i] = t THEN i ELSE RFindFrom(s, t, i - 1)
RFind(s, t) == RFindFrom(s, t, Len(s))

\* str.replace(old, new) for one-token old and new
Replace(s, old, new) == [i \in 1..Len(s) |-> IF s[i] = old THEN new ELSE s[i]]

StartsWith(s, p) == Len(p) <= Len(s) /\ SubSeq(s, 1, Len(p)) = p
EndsWith(s, p) == Len(p) <= Len(s) /\ SubSeq(s, Len(s) - Len(p) + 1, Len(s)) = p

\* PurePath.suffix: the text from the last dot, when that dot is neither
\* the first nor the last character of the name
PathSuffix(name) ==
    LET i == RFind(name, ".")
    IN  IF 1 < i /\ i < Len(name) THEN SubSeq(name, i, Len(name)) ELSE <<>>

\* PurePath.stem: the name without its suffix
PathStem(name) ==
    LET i == RFind(name, ".")
    IN  IF 1 < i /\ i < Len(name) THEN SubSeq(name, 1, i - 1) ELSE name

\* PurePath.with_suffix
WithSuffix(name, suffix) == PathStem(name) \o suffix

\* s.split(".")[0]: the text before the first dot
SplitFirst(s) ==
    LET i == Find(s, ".")
    IN  IF i = 0 THEN s ELSE SubSeq(s, 1, i - 1)

\* the decimal text of a small number, as str() gives it
Digits == <<"0", "1", "2", "3", "4", "5", "6", "7", "8", "9">>
RECURSIVE Str(_)
Str(n) == IF n < 10 THEN <<Digits[n + 1]>>
          ELSE Append(Str(n \div 10), Digits[(n % 10) + 1])

-----------------------------------------------------------------------------
(* Names and paths *)

CacheName == <<"__pycache__">>
PycSuffix == <<".", "pyc">>
CacheTag == <<"cpython", "-", "311">>       \* sys.implementation.cache_tag
PythonVersion == <<"311">>                  \* f"{major}{minor}"

SourceDir == << <<"pkg">> >>
DistDir == << <<"dist">> >>
TmpDir == Append(DistDir, <<"tmp">>)

PkgName == <<"pkg">>
Version == <<"1", ".", "0">>
DistNames == {<<"pkg">>, <<"my", "-", "pkg">>}
PkgDir == Append(TmpDir, <<"package">>)
StubsDir == Append(TmpDir, <<"stubs">>)

Parent(p) == Front(p)
IsUnder(p, d) == Len(p) > Len(d) /\ SubSeq(p, 1, Len(d)) = d

\* PurePath.relative_to(base), for a path under base
RelativeTo(p, base) == SubSeq(p, Len(base) + 1, Len(p))

\* str(path): the names joined by "/"
RECURSIVE PathStr(_)
PathStr(p) ==
    IF p = <<>> THEN <<>>
    ELSE IF Len(p) = 1 THEN p[1]
    ELSE p[1] \o <<"/">> \o PathStr(Tail(p))

-----------------------------------------------------------------------------
(* File system primitives *)

DirNode == [dir |-> TRUE, content |-> <<>>]
FileNode(c) == [dir |-> FALSE, content |-> c]

Exists(f, p) == p \in DOMAIN f
IsDir(f, p) == p \in DOMAIN f /\ f[p].dir
IsFile(f, p) == p \in DOMAIN f /\ ~f[p].dir
ParentOk(f, p) == Len(p) = 1 \/ IsDir(f, Parent(p))

Children(f, d) == {p \in DOMAIN f : Len(p) = Len(d) + 1 /\ SubSeq(p, 1, Len(d)) = d}
Under(f, d) == {p \in DOMAIN f : IsUnder(p, d)}

Put(f, p, node) == [q \in DOMAIN f \cup {p} |-> IF q = p THEN node ELSE f[q]]
Drop(f, ps) == [q \in DOMAIN f \ ps |-> f[q]]

\* Path.mkdir(): fails when the path exists or its parent is no directory
CanMkdir(f, p) == ~Exists(f, p) /\ ParentOk(f, p)
Mkdir(f, p) == Put(f, p, DirNode)

\* Path.mkdir(parents=True): creates the missing ancestors too
RECURSIVE MkdirParents(_, _)
MkdirParents(f, p) ==
    IF Len(p) = 0 \/ Exists(f, p) THEN f
    ELSE Put(MkdirParents(f, Parent(p)), p, DirNode)
RECURSIVE AncestorsAreDirs(_, _)
AncestorsAreDirs(f, p) ==
    Len(p) <= 1 \/ ((~Exists(f, Parent(p)) \/ IsDir(f, Parent(p)))
                      /\ AncestorsAreDirs(f, Parent(p)))
\* a mkdir(parents=True, exist_ok=True)
CanMkdirParentsExistOk(f, p) == ~IsFile(f, p) /\ AncestorsAreDirs(f, p)

CanMkdirParents(f, p) == ~Exists(f, p) /\ AncestorsAreDirs(f, p)

\* Path.write_bytes(): fails on a directory or without a parent directory
CanWrite(f, p) == ~IsDir(f, p) /\ ParentOk(f, p)
WriteBytes(f, p, c) == Put(f, p, FileNode(c))

\* The order in which iterdir() lists a directory is the file system's
\* choice: by name, ascending or (rev) descending.
NameOrder == <<
    <<"__pycache__">>,
    <<"a", ".", "cpython", "-", "311", ".", "opt", "-", "2", ".", "pyc">>,
    <<"a", ".", "cpython", "-", "311", ".", "pyc">>,
    <<"a", ".", "py">>,
    <<"a", ".", "pyc">>,
    <<"b", ".", "cpython", "-", "311", ".", "opt", "-", "2", ".", "pyc">>,
    <<"b", ".", "cpython", "-", "311", ".", "pyc">>,
    <<"b", ".", "py">>,
    <<"sub">> >>

RECURSIVE SetToSeq(_)
SetToSeq(S) ==
    IF S = {} THEN <<>>
    ELSE LET x == CHOOSE y \in S : TRUE IN <<x>> \o SetToSeq(S \ {x})

Range(s) == {s[i] : i \in 1..Len(s)}

IterDir(f, d, r) ==
    LET asc == SelectSeq(NameOrder, LAMBDA n : Append(d, n) \in DOMAIN f)
        known == [i \in 1..Len(asc) |-> Append(d, asc[i])]
        listed == known \o SetToSeq(Children(f, d) \ Range(known))
    IN  IF r THEN Reverse(listed) ELSE listed

-----------------------------------------------------------------------------
(* RECORD lines *)

\* "\n".join(lines)
RECURSIVE Join(_)
Join(lines) ==
    IF lines = <<>> THEN <<>>
    ELSE IF Len(lines) = 1 THEN lines[1]
    ELSE lines[1] \o <<"\n">> \o Join(Tail(lines))

\* text.split("\n")
RECURSIVE SplitLines(_)
SplitLines(text) ==
    LET i == Find(text, "\n")
    IN  IF i = 0 THEN <<text>>
        ELSE <<SubSeq(text, 1, i - 1)>> \o SplitLines(SubSeq(text, i + 1, Len(text)))

\* the path field of a RECORD line: the text before the first comma
LinePath(line) ==
    LET i == Find(line, ",")
    IN  IF i = 0 THEN line ELSE SubSeq(line, 1, i - 1)

\* the digest and size fields of a RECORD line: the text from the first comma
LineRest(line) ==
    LET i == Find(line, ",")
    IN  IF i = 0 THEN <<>> ELSE SubSeq(line, i, Len(line))

\* "sha256=" + sha256(content).hexdigest(): an injective image of the
\* content that holds no line break and no comma, as a hex digest does
Sha256(content) ==
    <<"sha256", "=">> \o [i \in 1..Len(content) |->
                              IF content[i] = "\n" THEN "0a"
                              ELSE IF content[i] = "," THEN "2c" ELSE content[i]]

record_line(base, path, content) ==
    PathStr(RelativeTo(path, base)) \o <<",">> \o Sha256(content)
        \o <<",">> \o Str(Len(content))

\* f"{pkg_record_file.relative_to(dir)},,"
SelfLine(base, path) == PathStr(RelativeTo(path, base)) \o <<",", ",">>

-----------------------------------------------------------------------------
(* Filesystem utilities *)

\* rmdir: remove a directory and everything below it, children first
RECURSIVE rmdir(_, _, _), RmdirItems(_, _, _)
RmdirItems(f, items, r) ==
    IF items = <<>> THEN f
    ELSE LET item == Head(items)
         IN  RmdirItems(IF f[item].dir THEN rmdir(f, item, r) ELSE Drop(f, {item}),
                        Tail(items), r)
rmdir(f, path, r) == Drop(RmdirItems(f, IterDir(f, path, r), r), {path})

\* remove_cache: [fs, ok]; ok is FALSE when path.rmdir() raised on a cache
\* directory that still holds an entry, and the walk stopped there
RECURSIVE remove_cache(_, _, _), RemoveCacheItems(_, _, _, _)
RemoveCacheItems(f, items, is_cache, r) ==
    IF items = <<>> THEN [fs |-> f, ok |-> TRUE]
    ELSE LET item == Head(items)
         IN  IF f[item].dir
             THEN LET sub == remove_cache(f, item, r)
                  IN  IF sub.ok
                      THEN RemoveCacheItems(sub.fs, Tail(items), is_cache, r)
                      ELSE sub
             ELSE RemoveCacheItems(IF is_cache THEN Drop(f, {item}) ELSE f,
                                   Tail(items), is_cache, r)
remove_cache(f, path, r) ==
    LET is_cache == Len(path) > 0 /\ Last(path) = CacheName
        walked == RemoveCacheItems(f, IterDir(f, path, r), is_cache, r)
    IN  IF ~walked.ok \/ ~is_cache THEN walked
        ELSE IF Children(walked.fs, path) = {}
             THEN [fs |-> Drop(walked.fs, {path}), ok |-> TRUE]
             ELSE [fs |-> walked.fs, ok |-> FALSE]

\* a naming that keeps the interpreter tag of a cache file
TargetNameTagged(name) == name

\* the name copy_pyc gives a compiled file at the destination
TargetName(name) == SplitFirst(PathStem(name)) \o PathSuffix(name)

\* copy_pyc, on a walk state st = [fs, records, log, ok]; ok is FALSE
\* when mkdir or write_bytes raised, and the walk stopped there
RECURSIVE CopyPycWalk(_, _, _, _, _), CopyPycItems(_, _, _, _, _)
CopyPycItems(st, items, dest, base, r) ==
    IF items = <<>> \/ ~st.ok THEN st
    ELSE LET item == Head(items)
             new_dest == Append(dest, Last(item))
             content == st.fs[item].content
             target == Append(dest, TargetName(Last(item)))
             done ==
                 IF st.fs[item].dir
                 THEN IF Last(item) = CacheName
                      THEN CopyPycWalk(st, item, dest, base, r)
                      ELSE IF CanMkdir(st.fs, new_dest)
                           THEN CopyPycWalk([st EXCEPT !.fs = Mkdir(@, new_dest)],
                                            item, new_dest, base, r)
                           ELSE [st EXCEPT !.ok = FALSE]
                 ELSE IF PathSuffix(Last(item)) = PycSuffix
                      THEN IF CanWrite(st.fs, target)
                           THEN [fs |-> WriteBytes(st.fs, target, content),
                                 records |-> Append(st.records,
                                                    record_line(base, target, content)),
                                 log |-> Append(st.log, [src |-> item, dst |-> target,
                                                         content |-> content]),
                                 ok |-> TRUE]
                           ELSE [st EXCEPT !.ok = FALSE]
                      ELSE st
         IN  CopyPycItems(done, Tail(items), dest, base, r)
CopyPycWalk(st, source, dest, base, r) ==
    CopyPycItems(st, IterDir(st.fs, source, r), dest, base, r)

\* copy_pyc(source, dest) as its callers call it: base is dest.parent
copy_pyc(f, source, dest, r) ==
    CopyPycWalk([fs |-> f, records |-> <<>>, log |-> <<>>, ok |-> TRUE],
                source, dest, Parent(dest), r)


\* list_pyi: the RECORD lines of the ".pyi" files below path; nothing is copied
RECURSIVE ListPyiWalk(_, _, _, _), ListPyiItems(_, _, _, _)
ListPyiItems(f, items, base, r) ==
    IF items = <<>> THEN <<>>
    ELSE LET item == Head(items)
             here == IF f[item].dir THEN ListPyiWalk(f, item, base, r)
                     ELSE IF PathSuffix(Last(item)) = <<".", "pyi">>
                          THEN <<record_line(base, item, f[item].content)>>
                          ELSE <<>>
         IN  here \o ListPyiItems(f, Tail(items), base, r)
ListPyiWalk(f, path, base, r) == ListPyiItems(f, IterDir(f, path, r), base, r)
list_pyi(f, path, r) == ListPyiWalk(f, path, Parent(path), r)

-----------------------------------------------------------------------------
(* Compiler driver *)

\* importlib.util.cache_from_source: dir/__pycache__/<base>.<tag>[.opt-2].pyc
CacheFromSource(p, opt) ==
    Parent(p) \o <<CacheName,
                   PathStem(Last(p)) \o <<".">> \o CacheTag
                       \o (IF opt THEN <<".", "opt", "-", "2">> ELSE <<>>)
                       \o PycSuffix>>

\* the bytecode compile() makes of a source text at an optimization level
Bytecode(src, opt) == <<"code", IF opt THEN "O2" ELSE "O0">> \o src

\* the source files compileall walks: every ".py" file below dir that is
\* not inside a directory named __pycache__
PySources(f, dir) ==
    {p \in Under(f, dir) :
        /\ ~f[p].dir
        /\ EndsWith(Last(p), <<".", "py">>)
        /\ \A i \in 1..Len(p) : p[i] # CacheName}

\* compileall.compile_dir(dir, optimize=..., quiet=...): one compiled file
\* beside each source that compiles; a source in `broken` fails to compile
\* and is skipped without an error.  Called on a tree whose caches were
\* purged, so no compiled file is up to date and skipped.
compile_dir(f, dir, opt, broken) ==
    LET srcs == PySources(f, dir) \ broken
        out == {CacheFromSource(p, opt) : p \in srcs}
        caches == {Parent(c) : c \in out}
        source_of(c) == CHOOSE p \in srcs : CacheFromSource(p, opt) = c
    IN  [q \in DOMAIN f \cup caches \cup out |->
            IF q \in out THEN FileNode(Bytecode(f[source_of(q)].content, opt))
            ELSE IF q \in caches /\ q \notin DOMAIN f THEN DirNode
            ELSE f[q]]

\* compile_package: [fs, records, log, fresh, ok]
compile_package(f, pkg_name, source_dir, target_dir, opt, broken, r) ==
    LET purged == remove_cache(f, source_dir, r)
        compiled == compile_dir(purged.fs, source_dir, opt, broken)
        written == {CacheFromSource(p, opt) : p \in PySources(purged.fs, source_dir) \ broken}
        package_dir == Append(target_dir, pkg_name \o <<"-", "compact">>)
        walked == copy_pyc(MkdirParents(compiled, package_dir), source_dir, package_dir, r)
    IN  IF ~purged.ok
        THEN [fs |-> purged.fs, records |-> <<>>, log |-> <<>>, fresh |-> {}, ok |-> FALSE]
        ELSE IF ~CanMkdirParents(compiled, package_dir)
        THEN [fs |-> compiled, records |-> <<>>, log |-> <<>>, fresh |-> written, ok |-> FALSE]
        ELSE [fs |-> walked.fs, records |-> IF walked.ok THEN walked.records ELSE <<>>,
              log |-> walked.log, fresh |-> written, ok |-> walked.ok]

-----------------------------------------------------------------------------
(* Wheel assembler (compile.py) *)

\* importlib.metadata.metadata(name): the installed package's fields, in
\* order, a key repeated once per value
InstalledMetadata(name, version) == <<
    <<"Name", name>>,
    <<"Version", version>>,
    <<"Summary", <<"demo package">>>>,
    <<"Requires-Dist", <<"foo">>>>,
    <<"Requires-Dist", <<"bar">>>> >>

\* pkg_metadata_obj.get_all(key), rendered "key: value"
GetAllLines(fields, key) ==
    LET hits == SelectSeq(fields, LAMBDA kv : kv[1] = key)
    IN  [i \in 1..Len(hits) |-> <<key, ": ">> \o hits[i][2]]

\* pkg_metadata_obj[key]: the first value of the key
FirstValue(fields, key) == (CHOOSE i \in 1..Len(fields) :
    fields[i][1] = key /\ \A j \in 1..(i - 1) : fields[j][1] # key)

\* the METADATA lines build_wheel writes: the loop over the keys
RECURSIVE MetadataLines(_, _, _, _, _)
MetadataLines(fields, i, processed, stubs_for, wheel_name) ==
    IF i > Len(fields) THEN <<>>
    ELSE LET key == fields[i][1]
         IN  IF key \in processed
             THEN MetadataLines(fields, i + 1, processed, stubs_for, wheel_name)
             ELSE IF stubs_for # <<>> /\ key = "Name"
             THEN <<(<<"Name", ": ">> \o wheel_name)>>
                  \o MetadataLines(fields, i + 1, processed, stubs_for, wheel_name)
             ELSE IF stubs_for # <<>> /\ key = "Summary"
             THEN <<(<<"Summary", ": ">> \o fields[FirstValue(fields, "Summary")][2]
                     \o <<" typing stubs">>)>>
                  \o MetadataLines(fields, i + 1, processed, stubs_for, wheel_name)
             ELSE GetAllLines(fields, key)
                  \o MetadataLines(fields, i + 1, processed \cup {key}, stubs_for, wheel_name)

WheelFileContent == Join(<< <<"Wheel-Version", ": ", "1", ".", "0">>,
                            <<"Generator", ": ", "ziphy", "-", "compiler">>,
                            <<"Root-Is-Purelib", ": ", "true">>,
                            (<<"Tag", ": ", "py">> \o PythonVersion \o <<"-", "none", "-", "any">>) >>)

\* shutil.make_archive(base, "zip", root): the archive file base + ".zip"
\* holding every entry below root under its relative path
ArchiveNode(f, root) ==
    [dir |-> FALSE, content |-> <<"zip">>,
     members |-> [rel \in {RelativeTo(p, root) : p \in Under(f, root)} |->
                     f[root \o rel]]]
MakeArchive(f, base, root) == Put(f, Front(base) \o <<Last(base) \o <<".", "zip">>>>,
                                  ArchiveNode(f, root))

\* Path.rename on POSIX: replaces a file at the target; fails when the
\* source is missing, the target is a directory or has no parent directory
CanRename(f, src, dst) == Exists(f, src) /\ ~IsDir(f, dst) /\ ParentOk(f, dst)
Rename(f, src, dst) ==
    [q \in (DOMAIN f \ ({src} \cup Under(f, src)))
            \cup {dst} \cup {dst \o RelativeTo(p, src) : p \in Under(f, src)} |->
        IF q = dst THEN f[src]
        ELSE IF IsUnder(q, dst) /\ (src \o RelativeTo(q, dst)) \in DOMAIN f
        THEN f[src \o RelativeTo(q, dst)]
        ELSE f[q]]

WheelName(name, stubs_for) ==
    IF stubs_for # <<>> THEN stubs_for \o <<"-", "stubs">> ELSE name \o <<"-", "compact">>

\* a placement beside `dir`
WheelPathBeside(dir, wheel) == Parent(dir) \o <<wheel \o <<".", "whl">>>>

\* where build_wheel puts the final archive: two levels above `dir`
WheelPath(dir, wheel) == Parent(Parent(dir)) \o <<wheel \o <<".", "whl">>>>

\* The assemblers below run on a state st = [fs, records, path, ok]; a step
\* that raises leaves ok FALSE, and no later step changes anything.
Raise(st) == [st EXCEPT !.ok = FALSE]

\* meta_dir.mkdir()
MkdirStep(st, d) ==
    IF ~st.ok THEN st
    ELSE IF CanMkdir(st.fs, d) THEN [st EXCEPT !.fs = Mkdir(@, d)] ELSE Raise(st)

\* meta_dir.mkdir(parents=True)
MkdirParentsStep(st, d) ==
    IF ~st.ok THEN st
    ELSE IF CanMkdirParents(st.fs, d) THEN [st EXCEPT !.fs = MkdirParents(@, d)]
    ELSE Raise(st)

\* metadata(name): raises when the package is not installed
MetadataStep(st, installed) == IF st.ok /\ ~installed THEN Raise(st) ELSE st

\* file.write_bytes(content); records.append(record_line(base, file, content))
WriteAndRecord(st, base, file, content) ==
    IF ~st.ok THEN st
    ELSE [st EXCEPT !.fs = WriteBytes(@, file, content),
                    !.records = Append(@, record_line(base, file, content))]

\* a RECORD whose own line comes first
WriteRecordFileSelfFirst(st, base, file) ==
    IF ~st.ok THEN st
    ELSE [st EXCEPT !.fs = WriteBytes(@, file, Join(<<SelfLine(base, file)>> \o st.records)),
                    !.records = <<SelfLine(base, file)>> \o @]

\* records.append(f"{record_file.relative_to(base)},,");
\* record_file.write_bytes("\n".join(records).encode())
WriteRecordFile(st, base, file) ==
    IF ~st.ok THEN st
    ELSE [st EXCEPT !.fs = WriteBytes(@, file, Join(Append(st.records, SelfLine(base, file)))),
                    !.records = Append(@, SelfLine(base, file))]

\* result = make_archive(str(zip_dir / wheel), "zip", root);
\* (zip_dir / result).rename(result_path)
ArchiveStep(st, zip_dir, wheel, root, result_path) ==
    LET zipped == MakeArchive(st.fs, Append(zip_dir, wheel), root)
        result == Append(zip_dir, wheel \o <<".", "zip">>)
    IN  IF ~st.ok THEN st
        ELSE IF ~CanRename(zipped, result, result_path)
        THEN [st EXCEPT !.fs = zipped, !.ok = FALSE]
        ELSE [st EXCEPT !.fs = Rename(zipped, result, result_path), !.path = result_path]

\* f"{dist_info_name}-{version}-py{python_version}-none-any"
WheelStem(dist_info_name, version) ==
    dist_info_name \o <<"-">> \o version \o <<"-", "py">> \o PythonVersion
        \o <<"-", "none", "-", "any">>

\* f"{dist_info_name}-{version}.dist-info"
DistInfoDirName(dist_info_name, version) ==
    dist_info_name \o <<"-">> \o version \o <<".", "dist", "-", "info">>

\* build_wheel of compile.py: [fs, records, path, ok]; `installed` says
\* whether metadata(name) finds the package
build_wheel(f, name, version, dir, pkg_records, stubs_for, installed) ==
    LET wheel_name == WheelName(name, stubs_for)
        dist_info_name == Replace(wheel_name, "-", "_")
        meta_dir == Append(dir, DistInfoDirName(dist_info_name, version))
        pkg_metadata_content ==
            Join(MetadataLines(InstalledMetadata(name, version), 1, {},
                               stubs_for, wheel_name))
        wheel == WheelStem(dist_info_name, version)
    IN  ArchiveStep(
          WriteRecordFile(
            WriteAndRecord(
              WriteAndRecord(
                MetadataStep(
                  MkdirStep([fs |-> f, records |-> pkg_records, path |-> <<>>, ok |-> TRUE],
                            meta_dir),
                  installed),
                dir, Append(meta_dir, <<"METADATA">>), pkg_metadata_content),
              dir, Append(meta_dir, <<"WHEEL">>), WheelFileContent),
            dir, Append(meta_dir, <<"RECORD">>)),
          Parent(dir), wheel, dir, WheelPath(dir, wheel))

-----------------------------------------------------------------------------
(* Stub compiler driver *)

\* stubgen --package pkg_name --output target_dir: one ".pyi" file per
\* source file of the package, below target_dir/pkg_name; nothing when the
\* tool fails (`produced` is FALSE) or finds no source
StubOf(src) == <<"stub of ">> \o src
Stubgen(f, pkg_name, source_dir, target_dir, produced) ==
    LET srcs == IF produced THEN PySources(f, source_dir) ELSE {}
        out_of(p) == Append(target_dir, pkg_name) \o Parent(RelativeTo(p, source_dir))
                         \o <<PathStem(Last(p)) \o <<".", "pyi">>>>
        out == {out_of(p) : p \in srcs}
        made == UNION {{SubSeq(q, 1, n) : n \in (Len(target_dir) + 1)..(Len(q) - 1)} :
                          q \in out}
    IN  [q \in DOMAIN f \cup made \cup out |->
            IF q \in out THEN FileNode(StubOf(f[CHOOSE p \in srcs : out_of(p) = q].content))
            ELSE IF q \in made THEN DirNode
            ELSE f[q]]

\* compile_stubs: [fs, records, ok]
compile_stubs(f, pkg_name, source_dir, target_dir, produced, r) ==
    LET f1 == MkdirParents(f, target_dir)
        f2 == Stubgen(f1, pkg_name, source_dir, target_dir, produced)
        package_dir == Append(target_dir, pkg_name \o <<"-", "stubs">>)
        f3 == Rename(f2, Append(target_dir, pkg_name), package_dir)
    IN  IF ~CanMkdirParents(f, target_dir)
        THEN [fs |-> f, records |-> <<>>, ok |-> FALSE]
        ELSE IF ~CanRename(f2, Append(target_dir, pkg_name), package_dir)
        THEN [fs |-> f2, records |-> <<>>, ok |-> FALSE]
        ELSE [fs |-> f3, records |-> list_pyi(f3, package_dir, r), ok |-> TRUE]

-----------------------------------------------------------------------------
(* The plugin's wheel assembler (plugin.py) *)

RootDir == <<>>
Includes == <<PkgName>>         \* tool.poetry.packages: [{include = "pkg"}]

\* sorted(dependencies, key=name): the names this model uses, in order
DepOrder == << <<"bar">>, <<"bar", "-", "compact">>, <<"foo">>,
               <<"foo", "-", "compact">>, <<"foo", "-", "compact", "-", "compact">> >>
SortedByName(deps) ==
    LET known == SelectSeq(DepOrder, LAMBDA n : \E i \in 1..Len(deps) : deps[i].name = n)
    IN  [i \in 1..Len(known) |-> known[i]]

\* a clear that removes the staging directory only
PluginClearTmpOnly(f, r) ==
    [fs |-> IF Exists(f, TmpDir) THEN rmdir(f, TmpDir, r) ELSE f, ok |-> TRUE]

\* BuildCompactCommand.clear: [fs, ok]
PluginClear(f, r) ==
    remove_cache(IF Exists(f, TmpDir) THEN rmdir(f, TmpDir, r) ELSE f, RootDir, r)

\* BuildCompactCommand.compile, the loop over the includes, on a state
\* st = [fs, records, log, fresh, path, ok]
IncludeStep(st, include, tmp_dir, r) ==
    LET source_dir == RootDir \o <<include>>
        package_dir == tmp_dir \o <<include>>
        walked == copy_pyc(Mkdir(st.fs, package_dir), source_dir, package_dir, r)
    IN  IF ~CanMkdir(st.fs, package_dir) \/ ~IsDir(st.fs, source_dir)
        THEN Raise(st)
        ELSE [st EXCEPT !.fs = walked.fs,
                        !.records = IF walked.ok THEN @ \o walked.records ELSE @,
                        !.log = @ \o walked.log,
                        !.ok = walked.ok]
RECURSIVE PluginCopyIncludes(_, _, _, _)
PluginCopyIncludes(st, includes, tmp_dir, r) ==
    IF includes = <<>> \/ ~st.ok THEN st
    ELSE PluginCopyIncludes(IncludeStep(st, Head(includes), tmp_dir, r),
                            Tail(includes), tmp_dir, r)

\* BuildCompactCommand.compile: compile_dir over the project root, then the
\* includes
PluginCompile(st, opt, broken, tmp_dir, r) ==
    IF ~st.ok THEN st
    ELSE PluginCopyIncludes(
           [st EXCEPT !.fs = compile_dir(@, RootDir, opt, broken),
                      !.fresh = {CacheFromSource(p, opt) :
                                    p \in PySources(st.fs, RootDir) \ broken}],
           Includes, tmp_dir, r)

\* BuildCompactCommand.metadata_file: the content written to METADATA
PluginMetadataContent(compact_name, version, deps) ==
    LET sorted == SortedByName(deps)
    IN  <<"Metadata-Version", ": ", "2", ".", "1", "\n", "Name", ": ">> \o compact_name
        \o <<"\n", "Version", ": ">> \o version
        \o <<"\n", "Summary", ": ", "demo package", "\n", "License", ": ", "Proprietary",
             "\n", "Requires-Python", ": ", ">=3", ".", "11", ",<3", ".", "12", "\n">>
        \o Join([i \in 1..Len(sorted) |-> <<"Requires-Dist", ": ">> \o sorted[i]])
        \o (IF sorted = <<>> THEN <<>> ELSE <<"\n">>)

PluginWheelFileContent == WheelFileContent \o <<"\n">>

\* where the plugin puts the final archive: in dist_dir, beside tmp_dir
PluginWheelPath(dist_dir, wheel) == Append(dist_dir, wheel \o <<".", "whl">>)

\* BuildCompactCommand.metadata_file
metadata_file(st, tmp_dir, meta_dir, compact_name, version, deps) ==
    WriteAndRecord(st, tmp_dir, Append(meta_dir, <<"METADATA">>),
                   PluginMetadataContent(compact_name, version, deps))

\* BuildCompactCommand.wheel_file
wheel_file(st, tmp_dir, meta_dir) ==
    WriteAndRecord(st, tmp_dir, Append(meta_dir, <<"WHEEL">>), PluginWheelFileContent)

\* BuildCompactCommand.record_file
record_file(st, tmp_dir, meta_dir) ==
    LET file == Append(meta_dir, <<"RECORD">>)
    IN  IF ~st.ok THEN st
        ELSE [st EXCEPT !.fs = WriteBytes(@, file, Join(Append(st.records,
                                                               SelfLine(tmp_dir, file)))),
                        !.records = Append(@, SelfLine(tmp_dir, file))]

\* BuildCompactCommand.build_wheel: [fs, records, log, fresh, path, ok]
PluginBuildWheel(f, name, version, suffix, deps, opt, broken, r) ==
    LET compact_name == name \o suffix
        compact_dist_name == Replace(compact_name, "-", "_")
        dist_dir == RootDir \o DistDir
        tmp_dir == Append(dist_dir, <<"tmp">>)
        meta_dir == Append(tmp_dir, DistInfoDirName(compact_dist_name, version))
        wheel == WheelStem(compact_dist_name, version)
    IN  ArchiveStep(
          record_file(
            wheel_file(
              metadata_file(
                PluginCompile(
                  MkdirParentsStep([fs |-> f, records |-> <<>>, log |-> <<>>,
                                    fresh |-> {}, path |-> <<>>, ok |-> TRUE],
                                   meta_dir),
                  opt, broken, tmp_dir, r),
                tmp_dir, meta_dir, compact_name, version, deps),
              tmp_dir, meta_dir),
            tmp_dir, meta_dir),
          dist_dir, wheel, tmp_dir, PluginWheelPath(dist_dir, wheel))

-----------------------------------------------------------------------------
(* Source trees *)


NPy(m) == <<m, ".", "py">>
NLegacy(m) == <<m>> \o PycSuffix
NPyc(m, opt) == <<m, ".">> \o CacheTag
                    \o (IF opt THEN <<".", "opt", "-", "2">> ELSE <<>>) \o PycSuffix

\* what a source tree may hold below the source directory: sources, a
\* compiled file left beside its source, cache directories with compiled
\* files of both optimization levels, a cache inside a cache, a plain
\* directory inside a cache, a subpackage
TreeDirs == {
    <<CacheName>>, <<CacheName, <<"sub">>>>, <<CacheName, CacheName>>,
    << <<"sub">> >>, << <<"sub">>, CacheName>> }
TreeFiles == {
    <<NPy("a")>>, <<NLegacy("a")>>,
    <<CacheName, NPyc("a", FALSE)>>, <<CacheName, NPyc("a", TRUE)>>,
    <<CacheName, <<"sub">>, NPyc("b", FALSE)>>,
    <<CacheName, CacheName, NPyc("b", FALSE)>>,
    << <<"sub">>, NPy("b")>>, << <<"sub">>, CacheName, NPyc("b", TRUE)>> }

\* the initial content of a file of the tree: each file has a text of its own
InitialContent(rel) ==
    <<(IF EndsWith(Last(rel), <<".", "py">>) THEN "source of " ELSE "old bytes of ")>>
        \o PathStr(rel)

Trees == {t \in SUBSET (TreeDirs \cup TreeFiles) :
             /\ Cardinality(t) <= MaxEntries
             /\ \A q \in t : Len(q) = 1 \/ Front(q) \in (t \cap TreeDirs)}

\* the file system holding tree t below the source directory
TreeFs(t) ==
    [q \in {SourceDir} \cup {SourceDir \o rel : rel \in t} |->
        IF q = SourceDir \/ RelativeTo(q, SourceDir) \in TreeDirs THEN DirNode
        ELSE FileNode(InitialContent(RelativeTo(q, SourceDir)))]

Suffixes == {<<"-", "compact">>, <<"-", "bin">>}
Dep(name) == [name |-> name, constraint |-> "^1.0"]

\* the manifest's dependencies section that declares the dependencies deps
SectionOf(deps) ==
    [n \in {deps[i].name : i \in 1..Len(deps)} \cup {<<"python">>} |->
        IF n = <<"python">> THEN "^3.8"
        ELSE (CHOOSE d \in Range(deps) : d.name = n).constraint]

DefaultArgs(name) ==
    [name |-> name, package |-> PkgName, replace |-> <<>>, dependency_source |-> <<>>,
     no_package |-> FALSE, with_stubs |-> FALSE, no_optimize |-> FALSE, verbose |-> FALSE]

-----------------------------------------------------------------------------
(* The filesystem functions applied to source trees *)

Event(op, ok, before, after) == [op |-> op, ok |-> ok, before |-> before, after |-> after]

mainVars == <<backups, entry, cmds, replaced, exitcode>>

CallsOf(op) == Cardinality({i \in 1..Len(hist) : hist[i].op = op})

TreeInit ==
    /\ \E t \in Trees : fs = TreeFs(t)
    /\ pc = "start"
    /\ rev \in BOOLEAN
    /\ \E n \in DistNames, o \in BOOLEAN :
          args = [DefaultArgs(n) EXCEPT !.no_optimize = o]
    /\ \E x \in Suffixes : opts = [suffix |-> x, prefixes |-> {}, names |-> {}]
    /\ group = <<Dep(<<"foo">>), Dep(<<"bar">>)>>
    /\ section = SectionOf(group)
    /\ affected = <<>>
    /\ records = <<>>
    /\ collected = <<>>
    /\ copied = <<>>
    /\ fresh = {}
    /\ hist = <<>>
    /\ backups = <<>>
    /\ entry = <<>>
    /\ cmds = <<>>
    /\ replaced = "none"
    /\ exitcode = "running"

\* remove_cache(source_dir), up to MaxCalls times in a row
TreeRemoveCache ==
    /\ pc \in {"start", "purged"}
    /\ CallsOf("remove_cache") < MaxCalls
    /\ LET r == remove_cache(fs, SourceDir, rev)
       IN  /\ fs' = r.fs
           /\ pc' = IF r.ok THEN "purged" ELSE "failed"
           /\ hist' = Append(hist, Event("remove_cache", r.ok, fs, r.fs))
    /\ UNCHANGED <<rev, args, opts, group, section, affected, records, collected, copied, fresh, mainVars>>

\* copy_pyc(source_dir, package_dir) on the tree as it is
TreeCopyPyc ==
    /\ pc = "start"
    /\ LET package_dir == Append(PkgDir, PkgName \o <<"-", "compact">>)
           r == copy_pyc(MkdirParents(fs, package_dir), SourceDir, package_dir, rev)
       IN  /\ fs' = r.fs
           /\ records' = r.records
           /\ copied' = r.log
           /\ pc' = IF r.ok THEN "copied" ELSE "failed"
           /\ hist' = Append(hist, Event("copy_pyc", r.ok, fs, r.fs))
    /\ UNCHANGED <<rev, args, opts, group, section, affected, collected, fresh, mainVars>>

\* compile_package(pkg_name, source_dir, target_dir, optimize), and a second
\* call with the same target after a first that returned; a call that raises
\* returns nothing, so the caller keeps the records it had
TreeCompilePackage ==
    /\ pc \in {"start", "compiled"}
    /\ CallsOf("compile_package") < MaxCalls
    /\ \E broken \in SUBSET PySources(fs, SourceDir) :
          LET r == compile_package(fs, PkgName, SourceDir, PkgDir,
                                   ~args.no_optimize, broken, rev)
          IN  /\ fs' = r.fs
              /\ records' = IF r.ok THEN r.records ELSE records
              /\ copied' = copied \o r.log
              /\ fresh' = fresh \cup r.fresh
              /\ pc' = IF r.ok THEN "compiled" ELSE "failed"
              /\ hist' = Append(hist, Event("compile_package", r.ok, fs, r.fs))
    /\ UNCHANGED <<rev, args, opts, group, section, affected, collected, mainVars>>

\* build_wheel(name, version, pkg_dir, pkg_records)
TreeBuildWheel ==
    /\ pc = "compiled"
    /\ \E installed \in BOOLEAN :
          LET r == build_wheel(fs, args.name, Version, PkgDir, records, <<>>, installed)
          IN  /\ fs' = r.fs
              /\ records' = r.records
              /\ collected' = records
              /\ pc' = IF r.ok THEN "built" ELSE "failed"
              /\ hist' = Append(hist, Event("build_wheel", r.ok, fs, r.fs))
    /\ UNCHANGED <<rev, args, opts, group, section, affected, copied, fresh, mainVars>>

\* compile_stubs(pkg_name, target_dir), and a second call with the same target
TreeCompileStubs ==
    /\ pc \in {"start", "stubs compiled"}
    /\ CallsOf("compile_stubs") < MaxCalls
    /\ \E produced \in BOOLEAN :
          LET r == compile_stubs(fs, PkgName, SourceDir, StubsDir, produced, rev)
          IN  /\ fs' = r.fs
              /\ records' = IF r.ok THEN r.records ELSE records
              /\ pc' = IF r.ok THEN "stubs compiled" ELSE "failed"
              /\ hist' = Append(hist, Event("compile_stubs", r.ok, fs, r.fs))
    /\ UNCHANGED <<rev, args, opts, group, section, affected, collected, copied, fresh, mainVars>>

\* build_wheel(name, version, stubs_dir, stub_records, stubs_for=pkg_name)
TreeBuildStubsWheel ==
    /\ pc = "stubs compiled"
    /\ \E installed \in BOOLEAN :
          LET r == build_wheel(fs, args.name, Version, StubsDir, records, PkgName, installed)
          IN  /\ fs' = r.fs
              /\ records' = r.records
              /\ collected' = records
              /\ pc' = IF r.ok THEN "stubs built" ELSE "failed"
              /\ hist' = Append(hist, Event("build_stubs_wheel", r.ok, fs, r.fs))
    /\ UNCHANGED <<rev, args, opts, group, section, affected, copied, fresh, mainVars>>

\* BuildCompactCommand.clear, as prepare calls it
TreePluginClear ==
    /\ pc = "start"
    /\ LET r == PluginClear(fs, rev)
       IN  /\ fs' = r.fs
           /\ pc' = IF r.ok THEN "plugin prepared" ELSE "failed"
           /\ hist' = Append(hist, Event("clear", r.ok, fs, r.fs))
    /\ UNCHANGED <<rev, args, opts, group, section, affected, records, collected, copied, fresh, mainVars>>

\* BuildCompactCommand.build_wheel
TreePluginBuildWheel ==
    /\ pc = "plugin prepared"
    /\ \E broken \in SUBSET PySources(fs, RootDir) :
          LET r == PluginBuildWheel(fs, args.name, Version, opts.suffix, group,
                                   ~args.no_optimize, broken, rev)
          IN  /\ fs' = r.fs
              /\ records' = r.records
              /\ copied' = r.log
              /\ fresh' = r.fresh
              /\ pc' = IF r.ok THEN "plugin built" ELSE "failed"
              /\ hist' = Append(hist, Event("plugin_build_wheel", r.ok, fs, r.fs))
    /\ UNCHANGED <<rev, args, opts, group, section, affected, collected, mainVars>>

TreeNext ==
    \/ TreeRemoveCache
    \/ TreeCopyPyc
    \/ TreeCompilePackage
    \/ TreeBuildWheel
    \/ TreeCompileStubs
    \/ TreeBuildStubsWheel
    \/ TreePluginClear
    \/ TreePluginBuildWheel

SpecTree == TreeInit /\ [][TreeNext]_vars


-----------------------------------------------------------------------------
(* The standalone builder: python -m poetry_build_compact.compile *)

\* the two file names settings_backup loops over, in its order
ProjectFiles == << <<"poetry", ".", "lock">>, <<"pyproject", ".", "toml">> >>
BakSuffix == <<".", "bak">>

\* shutil.copyfile(src, dst)
CopyFile(f, src, dst) == Put(f, dst, FileNode(f[src].content))

\* settings_backup before the yield: [fs, files]
RECURSIVE SettingsBackupEnter(_, _)
SettingsBackupEnter(st, names) ==
    IF names = <<>> THEN st
    ELSE LET source_path == <<Head(names)>>
             target_path == <<WithSuffix(Head(names), BakSuffix)>>
         IN  SettingsBackupEnter(
               IF Exists(st.fs, source_path)
               THEN [fs |-> CopyFile(st.fs, source_path, target_path),
                     files |-> Append(st.files, [source |-> source_path,
                                                 target |-> target_path])]
               ELSE st,
               Tail(names))

\* a finally block that copies the backups back and keeps them
RECURSIVE SettingsBackupExitCopy(_, _)
SettingsBackupExitCopy(f, fileseq) ==
    IF fileseq = <<>> THEN [fs |-> f, ok |-> TRUE]
    ELSE SettingsBackupExitCopy(CopyFile(f, Head(fileseq).target, Head(fileseq).source),
                                Tail(fileseq))

\* settings_backup's finally block: every backup renamed back; [fs, ok]
RECURSIVE SettingsBackupExit(_, _)
SettingsBackupExit(f, fileseq) ==
    IF fileseq = <<>> THEN [fs |-> f, ok |-> TRUE]
    ELSE IF ~CanRename(f, Head(fileseq).target, Head(fileseq).source)
    THEN [fs |-> f, ok |-> FALSE]
    ELSE SettingsBackupExit(Rename(f, Head(fileseq).target, Head(fileseq).source),
                            Tail(fileseq))

\* prepare: the temporary directory of a previous run is removed
prepare(f, r) == IF Exists(f, TmpDir) THEN rmdir(f, TmpDir, r) ELSE f

\* a command order that adds the replacement before removing the dependency
ReplaceArgvAddFirst(k, dependencies, source) ==
    LET dependency == dependencies[(k \div 2) + 1]
    IN  IF k = 2 * Len(dependencies)
        THEN << <<"poetry">>, <<"lock">>, <<"--no-update">> >>
        ELSE IF k % 2 = 1
        THEN << <<"poetry">>, <<"remove">>, dependency >>
        ELSE << <<"poetry">>, <<"add">>, dependency \o <<"-", "compact">> >>
                 \o (IF source # <<>> THEN << <<"--source">>, source >> ELSE <<>>)

\* the k-th command replace_dependency runs (k from 0): remove and add for
\* each dependency in turn, then lock
ReplaceArgv(k, dependencies, source) ==
    LET dependency == dependencies[(k \div 2) + 1]
    IN  IF k = 2 * Len(dependencies)
        THEN << <<"poetry">>, <<"lock">>, <<"--no-update">> >>
        ELSE IF k % 2 = 0
        THEN << <<"poetry">>, <<"remove">>, dependency >>
        ELSE << <<"poetry">>, <<"add">>, dependency \o <<"-", "compact">> >>
                 \o (IF source # <<>> THEN << <<"--source">>, source >> ELSE <<>>)

\* what an external command does to a project file
FileEffects == {[kind |-> "keep", v |-> 0], [kind |-> "delete", v |-> 0]}
                   \cup {[kind |-> "write", v |-> k] : k \in 1..MaxVersions}
VersionContent(k) == <<"content ">> \o Str(k)
ApplyEffect(f, path, e) ==
    IF e.kind = "write" THEN Put(f, path, FileNode(VersionContent(e.v)))
    ELSE IF e.kind = "delete" THEN Drop(f, {path})
    ELSE f

LockPath == <<ProjectFiles[1]>>
TomlPath == <<ProjectFiles[2]>>

\* the project files present in f, with their nodes
ProjectState(f) == [q \in {LockPath, TomlPath} \cap DOMAIN f |-> f[q]]

\* the dependencies named on the command line: the first n of dep1, dep2, ...
DepName(i) == <<"dep">> \o Str(i)
ReplaceLists == {[i \in 1..n |-> DepName(i)] : n \in 0..MaxDeps}

\* the source trees of the standalone runs: a package with a subpackage, and a
\* package with a compiled file beside its source and a cache holding a directory
MainTrees == {
    {<<NPy("a")>>, << <<"sub">> >>, << <<"sub">>, NPy("b")>>},
    {<<NPy("a")>>, <<NLegacy("a")>>, <<CacheName>>, <<CacheName, <<"sub">>>>} }

\* what a previous run left in the output directory
StaleTmp == [q \in {DistDir, TmpDir, PkgDir, Append(PkgDir, <<"old">>)} |->
                IF q = Append(PkgDir, <<"old">>) THEN FileNode(<<"old">>) ELSE DirNode]

Init ==
    /\ \E t \in MainTrees, lock, toml, stale \in BOOLEAN :
          fs = TreeFs(t)
               @@ (IF lock THEN LockPath :> FileNode(VersionContent(1)) ELSE <<>>)
               @@ (IF toml THEN TomlPath :> FileNode(VersionContent(1)) ELSE <<>>)
               @@ (IF stale THEN StaleTmp ELSE <<>>)
    /\ pc = "enter"
    /\ rev = FALSE
    /\ \E d \in ReplaceLists, src \in {<<>>, <<"internal">>},
          np, ws, vb \in BOOLEAN :
          /\ (d = <<>> => src = <<>>)
          /\ args = [name |-> <<"my", "-", "pkg">>, package |-> PkgName, replace |-> d,
                     dependency_source |-> src, no_package |-> np, with_stubs |-> ws,
                     no_optimize |-> FALSE, verbose |-> vb]
    /\ opts = [suffix |-> <<"-", "compact">>, prefixes |-> {}, names |-> {}]
    /\ group = <<>>
    /\ section = SectionOf(group)
    /\ affected = <<>>
    /\ records = <<>>
    /\ collected = <<>>
    /\ copied = <<>>
    /\ fresh = {}
    /\ hist = <<>>
    /\ backups = <<>>
    /\ entry = <<>>
    /\ cmds = <<>>
    /\ replaced = "none"
    /\ exitcode = "running"

buildVars == <<records, collected, copied, fresh>>
envVars == <<rev, args, opts, group, section, affected>>

\* a step of the with-block raised: the block is left through finally
Raised == pc' = "leave" /\ exitcode' = "exception"

\* with settings_backup(): the backups are taken
MainEnter ==
    /\ pc = "enter"
    /\ LET st == SettingsBackupEnter([fs |-> fs, files |-> <<>>], ProjectFiles)
       IN  /\ fs' = st.fs
           /\ backups' = st.files
    /\ entry' = ProjectState(fs)
    /\ pc' = "prepare"
    /\ UNCHANGED <<envVars, buildVars, hist, cmds, replaced, exitcode>>

\* prepare(...): `poetry version --short` is run and its output kept
MainPrepare ==
    /\ pc = "prepare"
    /\ fs' = prepare(fs, rev)
    /\ \E rc \in {0, 1} :
          cmds' = Append(cmds, [argv |-> << <<"poetry">>, <<"version">>, <<"--short">> >>,
                                rc |-> rc])
    /\ pc' = "replace"
    /\ UNCHANGED <<envVars, buildVars, hist, backups, entry, replaced, exitcode>>

\* if args.replace_dependency: ... is false
MainNoReplace ==
    /\ pc = "replace"
    /\ args.replace = <<>>
    /\ pc' = "package"
    /\ UNCHANGED <<fs, envVars, buildVars, hist, mainVars>>

\* replace_dependency: the next subprocess.run; the command may rewrite or
\* delete the lock file and the manifest, and returns rc or cannot be started
MainReplaceCommand ==
    /\ pc = "replace"
    /\ args.replace # <<>>
    /\ LET k == Len(cmds) - 1
           last == (k = 2 * Len(args.replace))
       IN  \E rc \in {0, 1}, started \in BOOLEAN, el, et \in FileEffects :
             /\ (~started => rc = 1 /\ el.kind = "keep" /\ et.kind = "keep")
             /\ fs' = ApplyEffect(ApplyEffect(fs, LockPath, el), TomlPath, et)
             /\ cmds' = IF started
                        THEN Append(cmds, [argv |-> ReplaceArgv(k, args.replace,
                                                               args.dependency_source),
                                           rc |-> rc])
                        ELSE cmds
             /\ IF ~started
                THEN Raised /\ UNCHANGED replaced
                ELSE IF rc # 0
                THEN replaced' = "False" /\ pc' = "leave" /\ exitcode' = "1"
                ELSE IF last
                THEN replaced' = "True" /\ pc' = "package" /\ UNCHANGED exitcode
                ELSE UNCHANGED <<replaced, pc, exitcode>>
    /\ UNCHANGED <<envVars, buildVars, hist, backups, entry>>

\* if not args.no_package: compile_package(...)
MainCompilePackage ==
    /\ pc = "package"
    /\ IF args.no_package
       THEN pc' = "stubs" /\ UNCHANGED <<fs, buildVars, hist, exitcode>>
       ELSE \E broken \in SUBSET PySources(fs, SourceDir) :
              LET r == compile_package(fs, args.package, SourceDir, PkgDir,
                                       ~args.no_optimize, broken, rev)
              IN  /\ fs' = r.fs
                  /\ records' = r.records
                  /\ copied' = r.log
                  /\ fresh' = r.fresh
                  /\ hist' = Append(hist, Event("compile_package", r.ok, <<>>, <<>>))
                  /\ IF r.ok THEN pc' = "wheel" /\ UNCHANGED exitcode ELSE Raised
                  /\ UNCHANGED collected
    /\ UNCHANGED <<envVars, backups, entry, cmds, replaced>>

\* wheel = build_wheel(name, pkg_version, pkg_dir, pkg_records)
MainBuildWheel ==
    /\ pc = "wheel"
    /\ \E installed \in BOOLEAN :
          LET r == build_wheel(fs, args.name, Version, PkgDir, records, <<>>, installed)
          IN  /\ fs' = r.fs
              /\ records' = r.records
              /\ collected' = records
              /\ hist' = Append(hist, Event("build_wheel", r.ok, <<>>, <<>>))
              /\ IF r.ok THEN pc' = "stubs" /\ UNCHANGED exitcode ELSE Raised
    /\ UNCHANGED <<envVars, copied, fresh, backups, entry, cmds, replaced>>

\* if args.with_stubs: compile_stubs(...)
MainCompileStubs ==
    /\ pc = "stubs"
    /\ IF ~args.with_stubs
       THEN pc' = "cleanup" /\ UNCHANGED <<fs, records, hist, cmds, exitcode>>
       ELSE \E produced \in BOOLEAN :
              LET r == compile_stubs(fs, args.package, SourceDir, StubsDir, produced, rev)
              IN  /\ fs' = r.fs
                  /\ records' = r.records
                  /\ cmds' = Append(cmds, [argv |-> << <<"stubgen">>, <<"--package">>,
                                                       args.package >>,
                                           rc |-> IF produced THEN 0 ELSE 1])
                  /\ hist' = Append(hist, Event("compile_stubs", r.ok, <<>>, <<>>))
                  /\ IF r.ok THEN pc' = "stubs wheel" /\ UNCHANGED exitcode ELSE Raised
    /\ UNCHANGED <<envVars, collected, copied, fresh, backups, entry, replaced>>

\* wheel = build_wheel(name, pkg_version, stubs_dir, stub_records, stubs_for=pkg_name)
MainBuildStubsWheel ==
    /\ pc = "stubs wheel"
    /\ \E installed \in BOOLEAN :
          LET r == build_wheel(fs, args.name, Version, StubsDir, records, args.package,
                               installed)
          IN  /\ fs' = r.fs
              /\ records' = r.records
              /\ collected' = records
              /\ hist' = Append(hist, Event("build_stubs_wheel", r.ok, <<>>, <<>>))
              /\ IF r.ok THEN pc' = "cleanup" /\ UNCHANGED exitcode ELSE Raised
    /\ UNCHANGED <<envVars, copied, fresh, backups, entry, cmds, replaced>>

\* if not args.verbose: remove_cache(source_dir); rmdir(tmp_dir)
MainCleanup ==
    /\ pc = "cleanup"
    /\ IF args.verbose
       THEN pc' = "leave" /\ exitcode' = "0" /\ UNCHANGED <<fs, hist>>
       ELSE LET purged == remove_cache(fs, SourceDir, rev)
                ok == purged.ok /\ IsDir(purged.fs, TmpDir)
            IN  /\ fs' = IF ok THEN rmdir(purged.fs, TmpDir, rev) ELSE purged.fs
                /\ hist' = Append(hist, Event("cleanup", ok, <<>>, <<>>))
                /\ IF ok THEN pc' = "leave" /\ exitcode' = "0" ELSE Raised
    /\ UNCHANGED <<envVars, buildVars, backups, entry, cmds, replaced>>

\* settings_backup's finally block, on every way out of the with-block
MainLeave ==
    /\ pc = "leave"
    /\ LET r == SettingsBackupExit(fs, backups)
       IN  /\ fs' = r.fs
           /\ exitcode' = IF r.ok THEN exitcode ELSE "exception"
           /\ hist' = Append(hist, Event("settings_backup", r.ok, ProjectState(fs), <<>>))
    /\ pc' = "exited"
    /\ UNCHANGED <<envVars, buildVars, backups, entry, cmds, replaced>>

Next ==
    \/ MainEnter
    \/ MainPrepare
    \/ MainNoReplace
    \/ MainReplaceCommand
    \/ MainCompilePackage
    \/ MainBuildWheel
    \/ MainCompileStubs
    \/ MainBuildStubsWheel
    \/ MainCleanup
    \/ MainLeave

Spec == Init /\ [][Next]_vars

-----------------------------------------------------------------------------
(* The plugin's dependency rewriter: BaseReplaceCommand *)

\* the name a Dependency is created under: "_" and "." become "-"
CanonicalName(name) ==
    [i \in 1..Len(name) |-> IF name[i] \in {"_", "."} THEN "-" ELSE name[i]]

\* is_replaceable_dependency
is_replaceable_dependency(name, o) ==
    \/ name \in o.names
    \/ /\ ~EndsWith(name, o.suffix)
       /\ \E prefix \in o.prefixes : StartsWith(name, prefix)

\* group.remove_dependency(name)
RemoveDependency(deps, name) == SelectSeq(deps, LAMBDA d : d.name # name)

\* replace_dependency on the state [deps, iter, section, affected, ok] of a
\* replacement loop; iter is the list the loop walks, which is the group's own
\* list until the first remove_dependency rebinds it (live), or a copy of it
replace_dependency(st, dependency, o, hard, live) ==
    LET compact_dependency == [name |-> CanonicalName(dependency.name \o o.suffix),
                               constraint |-> dependency.constraint]
        added == Append(st.deps, compact_dependency)
        st1 == [st EXCEPT
                  !.deps = RemoveDependency(added, dependency.name),
                  !.iter = IF live /\ st.deps = st.iter
                           THEN Append(st.iter, compact_dependency) ELSE st.iter,
                  !.affected = st.affected \o <<compact_dependency.name, dependency.name>>]
    IN  IF ~hard THEN st1
        ELSE LET set == [n \in DOMAIN st.section \cup {compact_dependency.name} |->
                            IF n = compact_dependency.name THEN dependency.constraint
                            ELSE st.section[n]]
             IN  IF dependency.name \notin DOMAIN set
                 THEN [st1 EXCEPT !.section = set, !.ok = FALSE]
                 ELSE [st1 EXCEPT
                         !.section = [n \in DOMAIN set \ {dependency.name} |-> set[n]]]

\* for dependency in dependencies_group.dependencies: ..., from position i
RECURSIVE ReplaceLoop(_, _, _, _, _)
ReplaceLoop(st, i, o, hard, live) ==
    IF i > Len(st.iter) \/ ~st.ok THEN st
    ELSE ReplaceLoop(IF is_replaceable_dependency(st.iter[i].name, o)
                     THEN replace_dependency(st, st.iter[i], o, hard, live)
                     ELSE st,
                     i + 1, o, hard, live)

\* soft_replace: the group is rewritten in memory
soft_replace(deps, sect, o, live) ==
    ReplaceLoop([deps |-> deps, iter |-> deps, section |-> sect, affected |-> <<>>,
                 ok |-> TRUE], 1, o, FALSE, live)

PythonConstraint == "~3.11"         \* f"~{major}.{minor}"

\* hard_replace: the group and the manifest's section are rewritten
hard_replace(deps, sect, o, live) ==
    ReplaceLoop([deps |-> deps, iter |-> deps,
                 section |-> [sect EXCEPT ![<<"python">>] = PythonConstraint],
                 affected |-> <<>>, ok |-> TRUE], 1, o, TRUE, live)

\* the dependency names of the runs, and the groups made of them
NamePool == {<<"foo">>, <<"foo", "-", "compact">>, <<"bar">>}
Constraints == {"^1.0", "^2.0"}
Groups == {g \in UNION {[1..n -> [name : NamePool, constraint : Constraints]] :
                           n \in 0..MaxDeps} :
              \A i, j \in 1..Len(g) : i # j => g[i].name # g[j].name}
SuffixOptions == {<<"-", "compact">>, <<"_", "compact">>, <<>>}

ReplaceInit ==
    /\ group \in Groups
    /\ section = SectionOf(group)
    /\ affected = <<>>
    /\ \E x \in SuffixOptions, ps \in SUBSET {<<"foo">>},
          ns \in SUBSET {<<"foo">>, <<"foo", "-", "compact">>} :
          opts = [suffix |-> x, prefixes |-> ps, names |-> ns]
    /\ pc = "replace"
    /\ fs = <<>>
    /\ rev = FALSE
    /\ args = DefaultArgs(PkgName)
    /\ records = <<>>
    /\ collected = <<>>
    /\ copied = <<>>
    /\ fresh = {}
    /\ hist = <<>>
    /\ backups = <<>>
    /\ entry = <<>>
    /\ cmds = <<>>
    /\ replaced = "none"
    /\ exitcode = "running"

Snapshot(deps, sect) == [deps |-> deps, section |-> sect]

\* prepare() and soft_replace()
SoftReplace ==
    /\ pc = "replace"
    /\ Len(hist) < MaxRuns
    /\ \E live \in BOOLEAN :
          LET r == soft_replace(group, section, opts, live)
          IN  /\ group' = r.deps
              /\ affected' = r.affected
              /\ replaced' = IF r.affected # <<>> THEN "True" ELSE "False"
              /\ hist' = Append(hist, Event("soft_replace", r.ok, Snapshot(group, section),
                                            Snapshot(r.deps, section)))
    /\ UNCHANGED <<fs, pc, rev, args, opts, section, buildVars, backups, entry, cmds,
                   exitcode>>

\* prepare() and hard_replace(), for a manifest with a dependencies section
HardReplace ==
    /\ pc = "replace"
    /\ Len(hist) < MaxRuns
    /\ \E live \in BOOLEAN :
          LET r == hard_replace(group, section, opts, live)
          IN  /\ group' = r.deps
              /\ section' = r.section
              /\ affected' = r.affected
              /\ replaced' = IF r.ok /\ r.affected # <<>> THEN "True" ELSE "False"
              /\ hist' = Append(hist, Event("hard_replace", r.ok, Snapshot(group, section),
                                            Snapshot(r.deps, r.section)))
    /\ UNCHANGED <<fs, pc, rev, args, opts, buildVars, backups, entry, cmds, exitcode>>

ReplaceNext == SoftReplace \/ HardReplace

SpecReplace == ReplaceInit /\ [][ReplaceNext]_vars

-----------------------------------------------------------------------------
(* The plugin's build-compact command: BuildCompactCommand.handle *)

\* the lock file as the locker sees it: is_locked() is its existence,
\* is_fresh() compares the manifest hash it recorded
FreshLock == <<"lock", " of the manifest">>
StaleLock == <<"lock", " of another manifest">>
is_locked(f) == IsFile(f, LockPath)
is_fresh(f) == f[LockPath].content = FreshLock

\* check_locker
check_locker(f) == is_locked(f) /\ is_fresh(f)

\* the manifest file holding a dependencies section
ManifestNode(sect) == FileNode(<<sect>>)

\* the project trees of the plugin runs: a package with a subpackage, a
\* package with caches of an earlier run and a compiled file beside its
\* source, a package whose cache holds a directory
BuildTrees == {
    {<<NPy("a")>>, << <<"sub">> >>, << <<"sub">>, NPy("b")>>},
    {<<NPy("a")>>, <<NLegacy("a")>>, <<CacheName>>, <<CacheName, NPyc("a", FALSE)>>},
    {<<NPy("a")>>, <<CacheName>>, <<CacheName, <<"sub">>>>} }

LockStates == {"none", "stale", "fresh"}

\* where a run with the option suffix puts its wheel
BuildWheelPath(suffix) ==
    PluginWheelPath(DistDir, WheelStem(Replace(PkgName \o suffix, "-", "_"), Version))

\* the project directory of a plugin run; `blocked` holds the suffixes of the
\* wheel paths that a directory occupies
ProjectFs(t, lock, stale, sect, blocked) ==
    TreeFs(t)
        @@ (IF blocked = {} THEN <<>>
            ELSE (DistDir :> DirNode) @@ [q \in {BuildWheelPath(x) : x \in blocked} |-> DirNode])
        @@ (TomlPath :> ManifestNode(sect))
        @@ (IF lock = "none" THEN <<>>
            ELSE LockPath :> FileNode(IF lock = "fresh" THEN FreshLock ELSE StaleLock))
        @@ (IF stale THEN StaleTmp ELSE <<>>)

BuildGroups == {g \in UNION {[1..n -> {Dep(x) : x \in NamePool}] : n \in 0..MaxDeps} :
                   \A i, j \in 1..Len(g) : i # j => g[i] # g[j]}

BuildInit ==
    /\ group \in BuildGroups
    /\ section = SectionOf(group)
    /\ \E t \in BuildTrees, lock \in LockStates, stale \in BOOLEAN,
          blocked \in SUBSET {<<"-", "compact">>} :
          fs = ProjectFs(t, lock, stale, section, blocked)
    /\ entry = ProjectState(fs)
    /\ affected = <<>>
    /\ \E x \in SuffixOptions, ps \in SUBSET {<<"foo">>},
          ns \in SUBSET {<<"foo">>, <<"foo", "-", "compact">>} :
          opts = [suffix |-> x, prefixes |-> ps, names |-> ns]
    /\ pc = "handle"
    /\ rev = FALSE
    /\ args = DefaultArgs(PkgName)
    /\ records = <<>>
    /\ collected = <<>>
    /\ copied = <<>>
    /\ fresh = {}
    /\ hist = <<>>
    /\ backups = <<>>
    /\ cmds = <<>>
    /\ replaced = "none"
    /\ exitcode = "running"

\* if not self.check_locker(): return 1
BuildCheckLocker ==
    /\ pc = "handle"
    /\ hist' = Append(hist, Event("check_locker", check_locker(fs), <<>>, <<>>))
    /\ IF check_locker(fs)
       THEN pc' = "prepare" /\ UNCHANGED exitcode
       ELSE pc' = "returned" /\ exitcode' = "1"
    /\ UNCHANGED <<fs, envVars, buildVars, backups, entry, cmds, replaced>>

\* self.prepare(): the options are read and clear() is called
BuildPrepare ==
    /\ pc = "prepare"
    /\ LET r == PluginClear(fs, rev)
       IN  /\ fs' = r.fs
           /\ hist' = Append(hist, Event("prepare", r.ok, <<>>, <<>>))
           /\ IF r.ok
              THEN pc' = "soft replace" /\ UNCHANGED exitcode
              ELSE pc' = "returned" /\ exitcode' = "exception"
    /\ affected' = <<>>
    /\ UNCHANGED <<rev, args, opts, group, section, buildVars, backups, entry, cmds,
                   replaced>>

\* if self.soft_replace(): ...
BuildSoftReplace ==
    /\ pc = "soft replace"
    /\ \E live \in BOOLEAN :
          LET r == soft_replace(group, section, opts, live)
          IN  /\ group' = r.deps
              /\ affected' = r.affected
              /\ replaced' = IF r.affected # <<>> THEN "True" ELSE "False"
              /\ hist' = Append(hist, Event("soft_replace", r.ok, Snapshot(group, section),
                                            Snapshot(r.deps, section)))
    /\ pc' = "build wheel"
    /\ UNCHANGED <<fs, rev, args, opts, section, buildVars, backups, entry, cmds,
                   exitcode>>

\* self.build_wheel(); when it raises, the finally block runs next
BuildBuildWheel ==
    /\ pc = "build wheel"
    /\ \E broken \in SUBSET PySources(fs, RootDir) :
          LET r == PluginBuildWheel(fs, args.name, Version, opts.suffix, group,
                                   ~args.no_optimize, broken, rev)
          IN  /\ fs' = r.fs
              /\ records' = r.records
              /\ copied' = r.log
              /\ fresh' = r.fresh
              /\ hist' = Append(hist, Event("build_wheel", r.ok, <<>>, r.path))
              /\ exitcode' = IF r.ok THEN exitcode ELSE "exception"
    /\ pc' = "clear"
    /\ UNCHANGED <<envVars, collected, backups, entry, cmds, replaced>>

\* finally: self.clear(); return 0
BuildClear ==
    /\ pc = "clear"
    /\ LET r == PluginClear(fs, rev)
       IN  /\ fs' = r.fs
           /\ hist' = Append(hist, Event("clear", r.ok, <<>>, <<>>))
           /\ exitcode' = IF ~r.ok \/ exitcode = "exception" THEN "exception" ELSE "0"
    /\ pc' = "returned"
    /\ UNCHANGED <<envVars, buildVars, backups, entry, cmds, replaced>>

BuildNext ==
    \/ BuildCheckLocker
    \/ BuildPrepare
    \/ BuildSoftReplace
    \/ BuildBuildWheel
    \/ BuildClear

SpecBuild == BuildInit /\ [][BuildNext]_vars

-----------------------------------------------------------------------------
(* The plugin's replace command: ReplaceCommand.handle *)

\* a handle that goes on whatever the installer returned
AfterRunIgnored(rc, next) == next

\* if not self.install(): return 1 / if self.installer.run() != 0: return 1
AfterRun(rc, next) == IF rc # 0 THEN "returned" ELSE next

\* the lock file the re-resolution writes
NewLock == <<"lock", " of the rewritten manifest">>

\* a manifest without a dependencies section
NoSection == <<>>

CommandInit ==
    /\ \E g \in BuildGroups, hasSection \in BOOLEAN :
          /\ hasSection \/ g = <<>>
          /\ group = g
          /\ section = IF hasSection THEN SectionOf(g) ELSE NoSection
    /\ \E lock \in LockStates :
          fs = (TomlPath :> ManifestNode(section))
               @@ (IF lock = "none" THEN <<>>
                   ELSE LockPath :> FileNode(IF lock = "fresh" THEN FreshLock
                                             ELSE StaleLock))
    /\ entry = ProjectState(fs)
    /\ affected = <<>>
    /\ \E x \in SuffixOptions, ps \in SUBSET {<<"foo">>},
          ns \in SUBSET {<<"foo">>, <<"foo", "-", "compact">>} :
          opts = [suffix |-> x, prefixes |-> ps, names |-> ns]
    /\ pc = "handle"
    /\ rev = FALSE
    /\ args = DefaultArgs(PkgName)
    /\ records = <<>>
    /\ collected = <<>>
    /\ copied = <<>>
    /\ fresh = {}
    /\ hist = <<>>
    /\ backups = <<>>
    /\ cmds = <<>>
    /\ replaced = "none"
    /\ exitcode = "running"

Returned(code) == pc' = "returned" /\ exitcode' = code

\* if not self.check_locker(): return 1
CommandCheckLocker ==
    /\ pc = "handle"
    /\ hist' = Append(hist, Event("check_locker", check_locker(fs), <<>>, <<>>))
    /\ IF check_locker(fs) THEN pc' = "prepare" /\ UNCHANGED exitcode ELSE Returned("1")
    /\ UNCHANGED <<fs, envVars, buildVars, backups, entry, cmds, replaced>>

\* self.prepare(); with no prefix and no name there is nothing to replace
CommandPrepare ==
    /\ pc = "prepare"
    /\ affected' = <<>>
    /\ hist' = Append(hist, Event("prepare", TRUE, <<>>, <<>>))
    /\ IF opts.prefixes = {} /\ opts.names = {}
       THEN Returned("0")
       ELSE pc' = "install" /\ UNCHANGED exitcode
    /\ UNCHANGED <<fs, rev, args, opts, group, section, buildVars, backups, entry, cmds,
                   replaced>>

\* if not self.install(): return 1
CommandInstall ==
    /\ pc = "install"
    /\ \E rc \in {0, 1} :
          /\ cmds' = Append(cmds, [argv |-> << <<"installer">>, <<"run">> >>, rc |-> rc])
          /\ hist' = Append(hist, Event("install", rc = 0, <<>>, <<>>))
          /\ pc' = AfterRun(rc, "hard replace")
          /\ exitcode' = IF AfterRun(rc, "hard replace") = "returned" THEN "1" ELSE exitcode
    /\ UNCHANGED <<fs, envVars, buildVars, backups, entry, replaced>>

\* if poetry_content := self.hard_replace(): ...; otherwise return 0
CommandHardReplace ==
    /\ pc = "hard replace"
    /\ IF section = NoSection
       THEN /\ hist' = Append(hist, Event("hard_replace", TRUE, Snapshot(group, section),
                                          Snapshot(group, section)))
            /\ replaced' = "False"
            /\ Returned("0")
            /\ UNCHANGED <<group, section, affected>>
       ELSE \E live \in BOOLEAN :
              LET r == hard_replace(group, section, opts, live)
              IN  /\ group' = r.deps
                  /\ section' = r.section
                  /\ affected' = r.affected
                  /\ replaced' = IF r.ok /\ r.affected # <<>> THEN "True" ELSE "False"
                  /\ hist' = Append(hist, Event("hard_replace", r.ok,
                                                Snapshot(group, section),
                                                Snapshot(r.deps, r.section)))
                  /\ IF ~r.ok THEN Returned("exception")
                     ELSE IF r.affected = <<>> THEN Returned("0")
                     ELSE pc' = "resolve" /\ UNCHANGED exitcode
    /\ UNCHANGED <<fs, rev, args, opts, buildVars, backups, entry, cmds>>

\* the installer is run on the rewritten package and writes the lock file;
\* if self.installer.run() != 0: return 1
CommandResolve ==
    /\ pc = "resolve"
    /\ \E rc \in {0, 1} :
          /\ cmds' = Append(cmds, [argv |-> << <<"installer">>, <<"run">>, <<"update">> >>,
                                   rc |-> rc])
          /\ fs' = IF rc = 0 THEN Put(fs, LockPath, FileNode(NewLock)) ELSE fs
          /\ hist' = Append(hist, Event("resolve", rc = 0, <<>>, <<>>))
          /\ pc' = AfterRun(rc, "write")
          /\ exitcode' = IF AfterRun(rc, "write") = "returned" THEN "1" ELSE exitcode
    /\ UNCHANGED <<envVars, buildVars, backups, entry, replaced>>

\* self.poetry.file.write(poetry_content)
CommandWrite ==
    /\ pc = "write"
    /\ fs' = Put(fs, TomlPath, ManifestNode(section))
    /\ hist' = Append(hist, Event("write", TRUE, <<>>, <<>>))
    /\ pc' = "sync"
    /\ UNCHANGED <<envVars, buildVars, backups, entry, cmds, replaced, exitcode>>

\* return self.call("install", "--sync --all-extras --only=main")
CommandSync ==
    /\ pc = "sync"
    /\ \E rc \in {0, 1} :
          /\ cmds' = Append(cmds, [argv |-> << <<"install">>, <<"--sync">> >>, rc |-> rc])
          /\ hist' = Append(hist, Event("sync", rc = 0, <<>>, <<>>))
          /\ Returned(IF rc = 0 THEN "0" ELSE "1")
    /\ UNCHANGED <<fs, envVars, buildVars, backups, entry, replaced>>

CommandNext ==
    \/ CommandCheckLocker
    \/ CommandPrepare
    \/ CommandInstall
    \/ CommandHardReplace
    \/ CommandResolve
    \/ CommandWrite
    \/ CommandSync

SpecCommand == CommandInit /\ [][CommandNext]_vars

-----------------------------------------------------------------------------
(* Properties of the standalone run (Spec) *)

BackupOf(q) == <<WithSuffix(q[1], BakSuffix)>>

\* C1: each of poetry.lock and pyproject.toml that exists when the scope is
\* entered has a backup holding its entry content for as long as the scope is
\* open, and once the scope is left, on whichever path, the file is back with
\* its entry content and no backup file remains.
C1_BackupRestored ==
    /\ pc \notin {"enter", "exited"} =>
          /\ DOMAIN entry = {q \in {LockPath, TomlPath} : Exists(fs, BackupOf(q))}
          /\ \A q \in DOMAIN entry : fs[BackupOf(q)] = entry[q]
    /\ pc = "exited" =>
          /\ \A q \in DOMAIN entry : Exists(fs, q) /\ fs[q] = entry[q]
          /\ \A q \in {LockPath, TomlPath} : ~Exists(fs, BackupOf(q))

\* C1 (case reached): the scope was left through exit(1) after the commands
\* inside it had deleted the lock file and rewritten the manifest, and both
\* files existed at entry.
C1_Witness ==
    /\ pc = "exited"
    /\ exitcode = "1"
    /\ DOMAIN entry = {LockPath, TomlPath}
    /\ LET left == hist[Len(hist)].before
       IN  /\ LockPath \notin DOMAIN left
           /\ TomlPath \in DOMAIN left
           /\ left[TomlPath] # entry[TomlPath]

\* the commands replace_dependency has run so far
ReplaceCmds == SelectSeq(cmds, LAMBDA c : c.argv[2] \in {<<"remove">>, <<"add">>, <<"lock">>})

\* the first three words of the i-th command of the documented order
ExpectedCommand(i) ==
    IF i = 2 * Len(args.replace) + 1 THEN << <<"poetry">>, <<"lock">>, <<"--no-update">> >>
    ELSE IF i % 2 = 1 THEN << <<"poetry">>, <<"remove">>, args.replace[(i + 1) \div 2] >>
    ELSE << <<"poetry">>, <<"add">>, args.replace[i \div 2] \o <<"-", "compact">> >>

BuildOps == {"compile_package", "build_wheel", "compile_stubs", "build_stubs_wheel"}

\* C8: the replace commands run in the order remove(d1), add(d1-compact), ...,
\* lock; only the last command run can have returned non-zero, and when it did
\* replace_dependency returned False, the exit code is 1 and no compile or
\* build step has run; replace_dependency returned True only after all 2n+1
\* commands returned 0.
C8_ReplaceFailFast ==
    LET run == ReplaceCmds
    IN  /\ Len(run) <= 2 * Len(args.replace) + 1
        /\ \A i \in 1..Len(run) : SubSeq(run[i].argv, 1, 3) = ExpectedCommand(i)
        /\ \A i \in 1..(Len(run) - 1) : run[i].rc = 0
        /\ (run # <<>> /\ run[Len(run)].rc # 0) =>
              /\ replaced = "False"
              /\ exitcode = "1"
              /\ pc \in {"leave", "exited"}
              /\ \A i \in 1..Len(hist) : hist[i].op \notin BuildOps
              /\ \A i \in 1..Len(cmds) : cmds[i].argv[1] # <<"stubgen">>
        /\ replaced = "False" => (run # <<>> /\ run[Len(run)].rc # 0)
        /\ replaced = "True" =>
              /\ Len(run) = 2 * Len(args.replace) + 1
              /\ \A i \in 1..Len(run) : run[i].rc = 0

\* C8 (case reached): the remove of the second dependency failed in a run that
\* was asked for a package and for stubs, and the process has exited.
C8_Witness ==
    /\ pc = "exited"
    /\ exitcode = "1"
    /\ ~args.no_package /\ args.with_stubs
    /\ Len(ReplaceCmds) = 3
    /\ ReplaceCmds[3].rc # 0

-----------------------------------------------------------------------------
(* Properties of the dependency rewriter (SpecReplace) *)

NamesOf(deps) == {deps[i].name : i \in 1..Len(deps)}
Suffixed(e) == {n \in NamesOf(e.before.deps) : EndsWith(n, opts.suffix)}

\* the dependency entries of a snapshot: the group, and the section without
\* the interpreter's own entry
Entries(snap) ==
    [deps |-> snap.deps,
     section |-> [n \in DOMAIN snap.section \ {<<"python">>} |-> snap.section[n]]]

\* C5: a dependency whose name already ends with the suffix is never replaced:
\* it stays in the group and no dependency named name+suffix+suffix is added;
\* and a run on the result of a previous run changes nothing.
C5_NeverDoubleSuffix ==
    \A i \in 1..Len(hist) :
        /\ \A n \in Suffixed(hist[i]) :
              /\ n \in NamesOf(hist[i].after.deps)
              /\ (n \o opts.suffix) \in NamesOf(hist[i].after.deps)
                    => (n \o opts.suffix) \in NamesOf(hist[i].before.deps)
        /\ i > 1 => Entries(hist[i].after) = Entries(hist[i].before)

-----------------------------------------------------------------------------
(* Properties of the filesystem functions and the assemblers (SpecTree) *)

PackageDir == Append(PkgDir, PkgName \o <<"-", "compact">>)
PluginPackageDir == Append(TmpDir, PkgName)

InPluginFlow == hist # <<>> /\ hist[1].op = "clear"

\* the directory copy_pyc was given as its destination
CopyDest == IF InPluginFlow THEN PluginPackageDir ELSE PackageDir

\* the root that was zipped
AssembledRoot ==
    IF pc = "plugin built" THEN TmpDir
    ELSE IF pc = "stubs built" THEN StubsDir ELSE PkgDir

Built == pc \in {"built", "stubs built", "plugin built"}

FilesUnder(f, d) == {p \in Under(f, d) : ~f[p].dir}
CacheDirs(f) == {p \in DOMAIN f : f[p].dir /\ Last(p) = CacheName}

\* the RECORD file below the assembled root, and its lines
RecordFile == CHOOSE p \in Under(fs, AssembledRoot) : Last(p) = <<"RECORD">>
RecordLines == SplitLines(fs[RecordFile].content)
DistInfoStr == PathStr(RelativeTo(Parent(RecordFile), AssembledRoot))

\* C2: after compile_package and build_wheel, the RECORD lines and the
\* files below the assembled root correspond one to one: every file has
\* exactly one line with its path, and every line names a file.
C2_RecordMatchesFiles ==
    pc = "built" =>
        LET files == FilesUnder(fs, PkgDir)
            paths == [i \in 1..Len(RecordLines) |-> LinePath(RecordLines[i])]
        IN  /\ \A p \in files :
                 Cardinality({i \in 1..Len(paths) :
                                 paths[i] = PathStr(RelativeTo(p, PkgDir))}) = 1
            /\ \A i \in 1..Len(paths) :
                 \E p \in files : paths[i] = PathStr(RelativeTo(p, PkgDir))
            /\ Len(RecordLines) = Cardinality(files)

\* the records collected before the assembly: the list build_wheel was
\* given, and in the plugin the lines of the files compile() copied
CollectedRecords ==
    IF pc = "plugin built"
    THEN [i \in 1..Len(copied) |-> record_line(TmpDir, copied[i].dst, copied[i].content)]
    ELSE collected

\* C3: in both assemblers the RECORD file holds the collected records in
\* their order, then the METADATA record, then the WHEEL record, then the
\* line "<dist-info>/RECORD,," as its last line, which occurs once.
C3_RecordOrder ==
    Built =>
        LET lines == RecordLines
            n == Len(lines)
            k == Len(CollectedRecords)
            meta == Append(Parent(RecordFile), <<"METADATA">>)
            wheel == Append(Parent(RecordFile), <<"WHEEL">>)
        IN  /\ n = k + 3
            /\ SubSeq(lines, 1, k) = CollectedRecords
            /\ LinePath(lines[k + 1]) = DistInfoStr \o <<"/", "METADATA">>
            /\ LineRest(lines[k + 1])
                   = <<",">> \o Sha256(fs[meta].content) \o <<",">>
                         \o Str(Len(fs[meta].content))
            /\ LinePath(lines[k + 2]) = DistInfoStr \o <<"/", "WHEEL">>
            /\ LineRest(lines[k + 2])
                   = <<",">> \o Sha256(fs[wheel].content) \o <<",">>
                         \o Str(Len(fs[wheel].content))
            /\ lines[n] = DistInfoStr \o <<"/", "RECORD", ",", ",">>
            /\ Cardinality({i \in 1..n : LinePath(lines[i]) = LinePath(lines[n])}) = 1

\* C3 (case reached): the plugin assembled a wheel from two or more copied files
C3_Witness ==
    /\ pc = "plugin built"
    /\ Len(copied) >= 2
    /\ Len(RecordLines) = Len(copied) + 3

\* C4: remove_cache completes on every tree, leaves no __pycache__
\* directory, and a second call changes nothing.
C4_RemoveCacheIdempotent ==
    \A i \in 1..Len(hist) :
        hist[i].op = "remove_cache" =>
            /\ hist[i].ok
            /\ CacheDirs(hist[i].after) = {}
            /\ (i > 1 /\ hist[i - 1].op = "remove_cache"
                    => hist[i].after = hist[i].before)

\* the text before the first dot of a file name
BeforeFirstDot(name) == SubSeq(name, 1, Find(name, ".") - 1)

\* the destination C6 states for a compiled file: the cache levels of its
\* directory dropped, the other levels kept, the name cut at its first dot
ExpectedDest(src) ==
    CopyDest
        \o SelectSeq(Parent(RelativeTo(src, SourceDir)), LAMBDA n : n # CacheName)
        \o <<BeforeFirstDot(Last(src)) \o <<".", "pyc">>>>

CopyDone == pc \in {"copied", "compiled", "built", "plugin built"}

\* the nodes of f at and below d
TreeAt(f, d) == [q \in {p \in DOMAIN f : p = d \/ IsUnder(p, d)} |-> f[q]]

\* no later call has recompiled the source tree since the files were copied
CopyOps == {"copy_pyc", "compile_package", "plugin_build_wheel"}
SourceAsCopied ==
    \E i \in 1..Len(hist) :
        /\ hist[i].op \in CopyOps
        /\ \A j \in 1..(i - 1) : hist[j].op \notin CopyOps
        /\ TreeAt(fs, SourceDir) = TreeAt(hist[i].after, SourceDir)

\* C6: copy_pyc writes each ".pyc" file of the source tree, with its
\* content, to the destination directory that mirrors its directory without
\* the __pycache__ levels, under the text before the first dot of its name
\* plus ".pyc"; it writes nothing else.  The source side is compared for as
\* long as no later call has recompiled the source tree.
C6_CopyPycNaming ==
    /\ \A i \in 1..Len(copied) :
         /\ EndsWith(Last(copied[i].src), <<".", "pyc">>)
         /\ copied[i].dst = ExpectedDest(copied[i].src)
         /\ SourceAsCopied =>
               /\ IsFile(fs, copied[i].src)
               /\ copied[i].content = fs[copied[i].src].content
         /\ IsFile(fs, copied[i].dst)
         /\ ((\A j \in (i + 1)..Len(copied) : copied[j].dst # copied[i].dst)
                => fs[copied[i].dst].content = copied[i].content)
    /\ \A p \in FilesUnder(fs, CopyDest) : \E i \in 1..Len(copied) : copied[i].dst = p
    /\ CopyDone =>
         \A p \in FilesUnder(fs, SourceDir) :
             EndsWith(Last(p), <<".", "pyc">>) =>
                 \E i \in 1..Len(copied) : copied[i].src = p

\* C6 (case reached): an optimized cache file of the top level and a cache file of
\* a subpackage were copied
C6_Witness ==
    /\ pc = "copied"
    /\ \E i, j \in 1..Len(copied) :
         /\ copied[i].src = SourceDir \o <<CacheName, NPyc("a", TRUE)>>
         /\ copied[i].dst = Append(PackageDir, <<"a", ".", "pyc">>)
         /\ copied[j].src = SourceDir \o << <<"sub">>, CacheName, NPyc("b", TRUE)>>
         /\ copied[j].dst = PackageDir \o << <<"sub">>, <<"b", ".", "pyc">> >>

\* C7: copy_pyc fails when two compiled files reduce to the same
\* destination: it never ends normally on such a tree, and never writes a
\* destination twice.
C7_CollisionFails ==
    /\ \A i, j \in 1..Len(copied) : i # j => copied[i].dst # copied[j].dst
    /\ pc = "copied" =>
         \A p, q \in FilesUnder(fs, SourceDir) :
             (/\ p # q
              /\ EndsWith(Last(p), <<".", "pyc">>)
              /\ EndsWith(Last(q), <<".", "pyc">>)) => ExpectedDest(p) # ExpectedDest(q)

\* C9: every file compile_package copies into the target was produced by
\* the compilation step of the same call.
C9_NoStaleArtifact ==
    (hist # <<>> /\ hist[1].op = "compile_package") =>
        \A i \in 1..Len(copied) : copied[i].src \in fresh

\* f"{dist}-{version}-py{major}{minor}-none-any.whl" for a distribution name
ExpectedWheel(dist) ==
    Replace(dist, "-", "_") \o <<"-">> \o Version
        \o <<"-", "py", "311", "-", "none", "-", "any", ".", "whl">>

ZipFiles == {p \in DOMAIN fs : EndsWith(Last(p), <<".", "zip">>)}

\* the archive holds exactly what is below the assembled root
HoldsRoot(wheel) ==
    /\ IsFile(fs, wheel)
    /\ DOMAIN fs[wheel].members
           = {RelativeTo(p, AssembledRoot) : p \in Under(fs, AssembledRoot)}

\* C10: the wheel is named after "<name>-compact" (or
\* "<importable>-stubs"), lies one level above the assembled root, and the
\* ".zip" is gone, for compile.py and for the plugin.
C10_WheelOneLevelUp ==
    Built =>
        /\ ZipFiles = {}
        /\ HoldsRoot(Append(Parent(AssembledRoot),
                            ExpectedWheel(IF pc = "stubs built"
                                          THEN PkgName \o <<"-", "stubs">>
                                          ELSE args.name \o <<"-", "compact">>)))

\* C10 (as the code has it): the plugin names the wheel after "<name><suffix>" and puts
\* it one level above tmp_dir; compile.py names it after "<name>-compact"
\* (stubs: "<importable>-stubs") and puts it two levels above dir.
C10_WheelPlacement ==
    Built =>
        /\ ZipFiles = {}
        /\ pc = "built" =>
             HoldsRoot(Append(Parent(Parent(PkgDir)),
                              ExpectedWheel(args.name \o <<"-", "compact">>)))
        /\ pc = "stubs built" =>
             HoldsRoot(Append(Parent(Parent(StubsDir)),
                              ExpectedWheel(PkgName \o <<"-", "stubs">>)))
        /\ pc = "plugin built" =>
             HoldsRoot(Append(Parent(TmpDir), ExpectedWheel(args.name \o opts.suffix)))

\* C10 (case reached): compile.py built the wheel of a hyphenated distribution
C10_Witness ==
    /\ pc = "built"
    /\ args.name = <<"my", "-", "pkg">>
    /\ IsFile(fs, Append(DistDir, <<"my", "_", "pkg", "_", "compact", "-", "1", ".", "0",
                                    "-", "py", "311", "-", "none", "-", "any", ".", "whl">>))

\* the directory a call must create: compile_package's package directory,
\* compile_stubs's target directory
MustCreate(op) == IF op = "compile_package" THEN PackageDir ELSE StubsDir

\* C14: compile_package fails when <target>/<pkg>-compact exists already and
\* compile_stubs fails when its target directory exists already, and the
\* failed call leaves that directory and everything in it as it was; so the
\* second of two calls with the same target fails.
C14_ExistingTargetFails ==
    \A i \in 1..Len(hist) :
        (/\ hist[i].op \in {"compile_package", "compile_stubs"}
         /\ Exists(hist[i].before, MustCreate(hist[i].op)))
            => /\ ~hist[i].ok
               /\ TreeAt(hist[i].after, MustCreate(hist[i].op))
                      = TreeAt(hist[i].before, MustCreate(hist[i].op))

\* C14 (case reached): compile_package was called a second time on a target
\* that holds the compiled file of the first call, with a source tree that
\* the second call could compile
C14_Witness ==
    /\ Len(hist) = 2
    /\ hist[1].op = "compile_package" /\ hist[1].ok
    /\ hist[2].op = "compile_package"
    /\ IsFile(hist[2].before, Append(PackageDir, <<"a", ".", "pyc">>))
    /\ CacheDirs(hist[2].before) # {}
    /\ CacheDirs(hist[2].after) # {}

\* the dependencies of a group that the replacement selects
Eligible(deps) == {d \in Range(deps) : is_replaceable_dependency(d.name, opts)}

\* C13: hard_replace changes the dependency table only at the keys of the
\* eligible dependencies and at "python": the key of each eligible dependency
\* is gone and its name+suffix is a key with its constraint, "python" is the
\* running interpreter's "~major.minor", and every other entry, one that was
\* named name+suffix before the call included, has the value it had.
C13_HardReplaceFrame ==
    \A i \in 1..Len(hist) :
        hist[i].op = "hard_replace" =>
            LET before == hist[i].before.section
                after == hist[i].after.section
                eligible == Eligible(hist[i].before.deps)
                names == {d.name : d \in eligible}
            IN  /\ \A d \in eligible :
                     /\ d.name \notin DOMAIN after
                     /\ (d.name \o opts.suffix) \in DOMAIN after
                     /\ after[d.name \o opts.suffix] = d.constraint
                /\ \A k \in DOMAIN before \ ({<<"python">>} \cup names) :
                     k \in DOMAIN after /\ after[k] = before[k]
                /\ after[<<"python">>] = PythonConstraint

\* the events of a build-compact run
EventsOf(op) == {i \in 1..Len(hist) : hist[i].op = op}

\* C11: on every path through handle the manifest and the lock file stay as
\* they were; soft_replace leaves the manifest's section alone, and in the
\* group every eligible dependency n is gone and n+suffix (in the canonical
\* spelling of dependency names) is there, and every dependency that is not
\* eligible is still there.
C11_InMemoryOnly ==
    /\ ProjectState(fs) = entry
    /\ \A i \in EventsOf("soft_replace") :
         LET before == hist[i].before.deps
             after == hist[i].after.deps
         IN  /\ hist[i].after.section = hist[i].before.section
             /\ \A d \in Eligible(before) :
                  /\ d.name \notin NamesOf(after)
                  /\ CanonicalName(d.name \o opts.suffix) \in NamesOf(after)
             /\ \A d \in Range(before) \ Eligible(before) : d \in Range(after)

\* C15: when handle has ended after prepare completed, dist/tmp does not
\* exist, no __pycache__ directory is left below the project root, and the
\* wheel that build_wheel produced is in dist/.
C15_ClearOnEveryPath ==
    (pc = "returned" /\ \E i \in EventsOf("prepare") : hist[i].ok) =>
        /\ EventsOf("clear") # {}
        /\ ~Exists(fs, TmpDir)
        /\ CacheDirs(fs) = {}
        /\ \A i \in EventsOf("build_wheel") :
             hist[i].ok => /\ Parent(hist[i].after) = DistDir
                           /\ IsFile(fs, hist[i].after)

\* C15 (case reached): handle ended with an exception of build_wheel, raised
\* after the sources were compiled and files were copied into dist/tmp
C15_Witness ==
    /\ pc = "returned"
    /\ exitcode = "exception"
    /\ copied # <<>>
    /\ fresh # {}
    /\ \E i \in EventsOf("build_wheel") : ~hist[i].ok

\* the steps of the replace command in the order handle takes them
StepsBeforeWrite == <<"check_locker", "prepare", "install", "hard_replace", "resolve">>
OpsOf(events) == [i \in 1..Len(events) |-> events[i].op]

\* C12: the manifest is written only after the lock check passed, the first
\* install returned 0, hard_replace replaced a dependency and the second
\* installer run returned 0, in this order; until then the manifest on disk
\* is as it was; a step that fails is the last step and handle returns 1; when
\* nothing is replaced handle returns 0 without a write; and install --sync
\* runs only directly after the write.
C12_WriteAfterAllSteps ==
    /\ \A i \in EventsOf("write") :
         /\ i = Len(StepsBeforeWrite) + 1
         /\ OpsOf(SubSeq(hist, 1, i - 1)) = StepsBeforeWrite
         /\ \A j \in 1..(i - 1) : hist[j].ok
         /\ NamesOf(hist[4].after.deps) # NamesOf(hist[4].before.deps)
         /\ affected # <<>>
    /\ EventsOf("write") = {} => fs[TomlPath] = entry[TomlPath]
    /\ \A i \in 1..Len(hist) :
         (hist[i].op \in {"check_locker", "install", "resolve"} /\ ~hist[i].ok)
            => i = Len(hist) /\ pc = "returned" /\ exitcode = "1"
    /\ \A i \in EventsOf("hard_replace") :
         (hist[i].ok /\ affected = <<>>)
            => i = Len(hist) /\ pc = "returned" /\ exitcode = "0"
    /\ \A i \in EventsOf("prepare") :
         (opts.prefixes = {} /\ opts.names = {})
            => i = Len(hist) /\ pc = "returned" /\ exitcode = "0"
    /\ \A i \in EventsOf("sync") : i > 1 /\ hist[i - 1].op = "write"

\* C12 (case reached): the manifest was written with a replaced dependency
\* and install --sync has run after it
C12_Witness ==
    /\ pc = "returned"
    /\ EventsOf("write") # {} /\ EventsOf("sync") # {}
    /\ fs[TomlPath] # entry[TomlPath]
    /\ <<"foo", "-", "compact">> \in DOMAIN fs[TomlPath].content[1]
    /\ <<"foo">> \notin DOMAIN fs[TomlPath].content[1]

====
